---- MODULE Spec2Model ----
(***************************************************************************)
(* EasyWeather: the temperature-to-colour gradient of the map screens, the *)
(* zone grid they generate, and the zone-temperature refresh loop of       *)
(* DynamicGeofencing and SanJoseDynamicGeofencing; the city search of      *)
(* HomeScreen, the useWeather hook, and the position subscription of       *)
(* ForecastMap.                                                            *)
(*                                                                         *)
(* Units.  Temperatures are integers in tenths of a degree Celsius (the    *)
(* gradient stop -7.5 is -75); on this grid the exact rational arithmetic  *)
(* below and the double arithmetic of the source give the same rounded     *)
(* channels.  Coordinates are integers in thousandths of a degree, and the *)
(* arithmetic on them is exact: the rounding of the source's doubles in    *)
(* the last bit of a coordinate is not represented.  A value of type       *)
(* `T | null` is <<>> for null and <<v>> for v.                            *)
(***************************************************************************)
EXTENDS Integers, Sequences, FiniteSets, TLC

VARIABLES
    screen,          \* which map screen is mounted: "dynamic" or "sanjose"
    mounted,         \* whether the screen component is mounted
    locPc,           \* useLocation: where its async function stands
    location,        \* useLocation: location (LocationData | null)
    errorMsg,        \* useLocation: errorMsg (string | null)
    zones,           \* the screen's zones state
    loading,         \* the screen's loading state
    error,           \* the screen's error state (string | null)
    apiCallCount,    \* apiCallCountRef.current
    timers,          \* the intervals that are set and not cleared
    logInterval,     \* the handle the logging effect's cleanup holds
    pollInterval,    \* the handle the polling effect's cleanup holds (or null)
    nextTimerId,     \* the handle the next setInterval returns
    batches,         \* every call of fetchZoneTemperatures so far, in order
    pollTicks,       \* history: how often the polling interval has fired
    temps,           \* colour screen: two successive temperatures of one zone (number | null)
    fillColors,      \* the fill colours the gradient-table screen has rendered for them
    sjFillColors,    \* the fill colours the San Jose screen has rendered for them
    origin,          \* grid screen: the arguments of generateZones (null: San Jose's has none)
    grid,            \* the zones generateZones has returned (<<>> before the call)
    centroids,       \* the marker coordinates rendered for these zones, in order
    cities,          \* HomeScreen: cities
    isAddingCity,    \* HomeScreen: isAddingCity
    newCityName,     \* HomeScreen: newCityName, a sequence of characters
    suggestions,     \* HomeScreen: suggestions
    rendered,        \* the state values the latest render of HomeScreen has closed over
    timeouts,        \* the inputs the pending timeouts of HomeScreen have closed over, oldest first
    delayDebounce,   \* TRUE while the timeout of the latest run of the suggestions effect is pending
    geocodes,        \* the queries of the geocode calls in flight, in the order of the calls
    geocodeCalls,    \* history: the number of calls of geocode so far
    latitude,        \* useWeather: the latitude argument of the latest render (null: undefined)
    longitude,       \* useWeather: the longitude argument of the latest render (null: undefined)
    weatherData,     \* useWeather: data
    weatherLoading,  \* useWeather: loading
    weatherError,    \* useWeather: error
    weatherMounted,  \* TRUE while the component that calls useWeather is mounted
    weatherFetches,  \* the calls of fetch by fetchWeather in flight, in the order of the calls
    fetchCount,      \* history: the number of calls of fetch by fetchWeather so far
    mapLocation,     \* ForecastMap: location (the position of the latest update, or null)
    locationError,   \* ForecastMap: locationError
    tracking,        \* ForecastMap: tracking
    region,          \* ForecastMap: region
    mapMounted,      \* TRUE while ForecastMap is mounted
    effects          \* the runs of the location effect of ForecastMap, oldest first

compVars ==
    <<screen, mounted, locPc, location, errorMsg, zones, loading, error,
      apiCallCount, timers, logInterval, pollInterval, nextTimerId, batches,
      pollTicks>>

colorVars == <<temps, fillColors, sjFillColors>>

gridVars == <<origin, grid, centroids>>

homeVars ==
    <<cities, isAddingCity, newCityName, suggestions, rendered, timeouts,
      delayDebounce, geocodes, geocodeCalls>>

weatherVars ==
    <<latitude, longitude, weatherData, weatherLoading, weatherError,
      weatherMounted, weatherFetches, fetchCount>>

mapVars == <<mapLocation, locationError, tracking, region, mapMounted, effects>>

vars == <<compVars, colorVars, gridVars, homeVars, weatherVars, mapVars>>

null == <<>>

Some(v) == <<v>>

(***************************************************************************)
(* Bounds                                                                  *)
(***************************************************************************)
\* How far (in tenths of a degree) the rendered temperatures reach below the
\* first and above the last gradient stop.
TempMargin == 20

\* The largest change of a rendered temperature between two renders, in
\* tenths of a degree; the widest gradient segment (20 -> 25) is 50 wide.
MaxDelta == 50

\* The refresh loop is followed over the first MaxZones zones of the grid.
MaxZones == 2

\* The refresh loop is followed until MaxBatches batches have been started.
MaxBatches == 2

\* The grid is generated for origins up to OriginSpan thousandths of a degree
\* either way, in latitude and in longitude, from the centred ones.
OriginSpan == 2

\* The longest input typed into the city field, in characters.
MaxNameLen == 4

\* HomeScreen is followed until MaxCities cities have been added.
MaxCities == 2

\* HomeScreen is followed until geocode has been called MaxGeocodes times.
MaxGeocodes == 2

\* The latitudes passed to useWeather are 1..MaxCoordinate, or undefined.
MaxCoordinate == 2

\* useWeather is followed until fetchWeather has called fetch MaxFetches times.
MaxFetches == 2

\* The positions reported to ForecastMap are 1..MaxPosition.
MaxPosition == 2

\* ForecastMap is followed until its location effect has run MaxEffects times.
MaxEffects == 4

(***************************************************************************)
(* The gradient table and the colour functions                             *)
(***************************************************************************)
\* Mutant: the plateau's second stop repeats the temperature of its first.
gradient_repeatedStop ==
    << [temp |-> -100, color |-> <<0, 0, 139>>],
       [temp |-> -75,  color |-> <<0, 0, 205>>],
       [temp |-> -50,  color |-> <<0, 0, 255>>],
       [temp |-> -25,  color |-> <<173, 216, 230>>],
       [temp |-> 0,    color |-> <<240, 248, 255>>],
       [temp |-> 25,   color |-> <<255, 255, 224>>],
       [temp |-> 50,   color |-> <<255, 255, 153>>],
       [temp |-> 75,   color |-> <<255, 255, 0>>],
       [temp |-> 75,   color |-> <<255, 255, 0>>],
       [temp |-> 125,  color |-> <<204, 204, 0>>],
       [temp |-> 150,  color |-> <<255, 165, 100>>],
       [temp |-> 175,  color |-> <<255, 140, 0>>],
       [temp |-> 200,  color |-> <<255, 120, 0>>],
       [temp |-> 250,  color |-> <<255, 80, 80>>],
       [temp |-> 280,  color |-> <<255, 0, 0>>],
       [temp |-> 320,  color |-> <<139, 0, 0>>],
       [temp |-> 350,  color |-> <<100, 0, 0>>] >>

\* The gradient stops, temperatures in tenths of a degree.
gradient ==
    << [temp |-> -100, color |-> <<0, 0, 139>>],
       [temp |-> -75,  color |-> <<0, 0, 205>>],
       [temp |-> -50,  color |-> <<0, 0, 255>>],
       [temp |-> -25,  color |-> <<173, 216, 230>>],
       [temp |-> 0,    color |-> <<240, 248, 255>>],
       [temp |-> 25,   color |-> <<255, 255, 224>>],
       [temp |-> 50,   color |-> <<255, 255, 153>>],
       [temp |-> 75,   color |-> <<255, 255, 0>>],
       [temp |-> 100,  color |-> <<255, 255, 0>>],
       [temp |-> 125,  color |-> <<204, 204, 0>>],
       [temp |-> 150,  color |-> <<255, 165, 100>>],
       [temp |-> 175,  color |-> <<255, 140, 0>>],
       [temp |-> 200,  color |-> <<255, 120, 0>>],
       [temp |-> 250,  color |-> <<255, 80, 80>>],
       [temp |-> 280,  color |-> <<255, 0, 0>>],
       [temp |-> 320,  color |-> <<139, 0, 0>>],
       [temp |-> 350,  color |-> <<100, 0, 0>>] >>

\* An rgba(...) colour: its three channels and the text of its alpha.
Rgba(r, g, b, alpha) == [r |-> r, g |-> g, b |-> b, alpha |-> alpha]

\* rgbaFromColor(color) with the default alpha = 0.5, the only way it is called.
rgbaFromColor(color) == Rgba(color[1], color[2], color[3], "0.5")

\* Mutant: a half is rounded towards minus infinity.
MathRound_halfDown(num, den) == 0 - ((den - 2 * num) \div (2 * den))

\* Math.round of the rational num/den (den > 0): the nearest integer, a half
\* rounded towards plus infinity.
MathRound(num, den) == (2 * num + den) \div (2 * den)

\* Mutant: the interpolation factor measured from the end stop.
channel_reversed(start, end, t, k) ==
    MathRound(start.color[k] * (end.temp - start.temp)
                + (end.temp - t) * (end.color[k] - start.color[k]),
              end.temp - start.temp)

\* Math.round(start.color[k] + factor * (end.color[k] - start.color[k])) with
\* factor = (temp - start.temp) / (end.temp - start.temp).
channel(start, end, t, k) ==
    MathRound(start.color[k] * (end.temp - start.temp)
                + (t - start.temp) * (end.color[k] - start.color[k]),
              end.temp - start.temp)

\* The body of the interpolation loop for the pair (gradient[i], gradient[i+1]).
interpolate(t, i) ==
    LET start == gradient[i]
        end   == gradient[i + 1]
    IN  rgbaFromColor(<< channel(start, end, t, 1),
                         channel(start, end, t, 2),
                         channel(start, end, t, 3) >>)

\* Mutant: the loop's test excludes both stops.
encloses_open(t, i) == t > gradient[i].temp /\ t < gradient[i + 1].temp

\* Mutant: the loop's test excludes the end stop.
encloses_halfOpen(t, i) == t >= gradient[i].temp /\ t < gradient[i + 1].temp

\* The indices i at which the loop's test temp >= start.temp && temp <= end.temp holds.
encloses(t, i) == t >= gradient[i].temp /\ t <= gradient[i + 1].temp

enclosing(t) == { i \in 1..(Len(gradient) - 1) : encloses(t, i) }

MinOf(S) == CHOOSE x \in S : \A y \in S : x <= y

\* Mutant: the null test is missing; the comparisons then see null as 0.
getTemperatureColor_nullAsZero(temp_) ==
    LET t == IF temp_ = null THEN 0 ELSE temp_[1]
    IN  IF t <= gradient[1].temp THEN rgbaFromColor(gradient[1].color)
        ELSE IF t >= gradient[Len(gradient)].temp
             THEN rgbaFromColor(gradient[Len(gradient)].color)
        ELSE IF enclosing(t) = {} THEN Rgba(128, 128, 128, "0.3")
        ELSE interpolate(t, MinOf(enclosing(t)))

\* Mutant: no clamping; outside the table the nearest segment is extrapolated.
getTemperatureColor_extrapolating(temp_) ==
    IF temp_ = null THEN Rgba(128, 128, 128, "0.3")
    ELSE LET t == temp_[1]
         IN  IF t < gradient[1].temp THEN interpolate(t, 1)
             ELSE IF t > gradient[Len(gradient)].temp
                  THEN interpolate(t, Len(gradient) - 1)
             ELSE interpolate(t, MinOf(enclosing(t)))

\* getTemperatureColor of the gradient-table screen.
getTemperatureColor(temp_) ==
    IF temp_ = null THEN Rgba(128, 128, 128, "0.3")
    ELSE LET t == temp_[1]
         IN  IF t <= gradient[1].temp THEN rgbaFromColor(gradient[1].color)
             ELSE IF t >= gradient[Len(gradient)].temp
                  THEN rgbaFromColor(gradient[Len(gradient)].color)
             ELSE IF enclosing(t) = {}
                  THEN Rgba(128, 128, 128, "0.3")   \* the fallback after the loop
             ELSE interpolate(t, MinOf(enclosing(t)))

\* getTemperatureColor of the San Jose screen: four buckets.
SJ_getTemperatureColor(temp_) ==
    IF temp_ = null THEN Rgba(128, 128, 128, "0.3")
    ELSE LET t == temp_[1]
         IN  IF t < 50 THEN Rgba(0, 0, 255, "0.3")
             ELSE IF t < 120 THEN Rgba(0, 255, 0, "0.3")
             ELSE IF t < 130 THEN Rgba(255, 165, 0, "0.3")
             ELSE Rgba(255, 0, 0, "0.3")

(***************************************************************************)
(* The zone grid.  Coordinates are integers in thousandths of a degree.    *)
(***************************************************************************)
numberOfRows == 8

numberOfColumns == 6

latStep == 80

lonStep == 100

SJ_numberOfRows == 8

SJ_numberOfColumns == 6

SJ_latStart == 36979

SJ_lonStart == -122456

SJ_latStep == 100

SJ_lonStep == 140

\* Mutant: the last two corners are pushed in the other order.
zoneCoordinates_crossed(latMin, latMax, lonMin, lonMax) ==
    << [latitude |-> latMin, longitude |-> lonMin],
       [latitude |-> latMin, longitude |-> lonMax],
       [latitude |-> latMax, longitude |-> lonMin],
       [latitude |-> latMax, longitude |-> lonMax] >>

\* The array coordinates of generateZones: the corners of the zone.
zoneCoordinates(latMin, latMax, lonMin, lonMax) ==
    << [latitude |-> latMin, longitude |-> lonMin],
       [latitude |-> latMin, longitude |-> lonMax],
       [latitude |-> latMax, longitude |-> lonMax],
       [latitude |-> latMax, longitude |-> lonMin] >>

\* Mutant: a zone is generated with the temperature 0.
newZone_zeroDegrees(zoneCount, coordinates) ==
    [ id          |-> "zone" \o ToString(zoneCount),
      coordinates |-> coordinates,
      temperature |-> Some(0),
      batch       |-> 0 ]

\* The object generateZones pushes: { id: `zone${zoneCount}`, coordinates,
\* temperature: null }.  The field batch is history: the batch (an index of
\* batches) that produced the zone's temperature, 0 for none.
newZone(zoneCount, coordinates) ==
    [ id          |-> "zone" \o ToString(zoneCount),
      coordinates |-> coordinates,
      temperature |-> null,
      batch       |-> 0 ]

RECURSIVE generateRow(_, _, _, _)

\* Mutant: zoneCount is incremented once per row instead of once per zone.
generateRow_countsRows(g, row, col, acc) ==
    IF ~(col < g.cols) THEN acc
    ELSE LET zoneCount == row + 1
             latMin    == g.latStart + row * g.latStep
             latMax    == g.latStart + (row + 1) * g.latStep
             lonMin    == g.lonStart + col * g.lonStep
             lonMax    == g.lonStart + (col + 1) * g.lonStep
             coordinates == zoneCoordinates(latMin, latMax, lonMin, lonMax)
             zone      == newZone(zoneCount, coordinates)
             pushed    == { [zones |-> Append(acc.zones, zone), zoneCount |-> zoneCount] }
         IN  CHOOSE r \in { generateRow(g, row, col + 1, a) : a \in pushed } : TRUE

\* The inner loop of generateZones for one row, from column col on: g holds
\* the function's parameters and constants, acc the local variables zones and
\* zoneCount.
generateRow(g, row, col, acc) ==
    IF ~(col < g.cols) THEN acc
    ELSE LET zoneCount == acc.zoneCount + 1
             latMin    == g.latStart + row * g.latStep
             latMax    == g.latStart + (row + 1) * g.latStep
             lonMin    == g.lonStart + col * g.lonStep
             lonMax    == g.lonStart + (col + 1) * g.lonStep
             coordinates == zoneCoordinates(latMin, latMax, lonMin, lonMax)
             zone      == newZone(zoneCount, coordinates)
             \* zones.push(zone); the new locals are bound through a one-element
             \* set, so that they are values before the next iteration starts
             pushed    == { [zones |-> Append(acc.zones, zone), zoneCount |-> zoneCount] }
         IN  CHOOSE r \in { generateRow(g, row, col + 1, a) : a \in pushed } : TRUE

\* The outer loop of generateZones, from row row on.
RECURSIVE generateRows(_, _, _)

generateRows(g, row, acc) ==
    IF ~(row < g.rows) THEN acc
    ELSE generateRows(g, row + 1, generateRow(g, row, 0, acc))

\* generateZones for the grid constants of either screen: zones = [],
\* zoneCount = 0, the loops, return zones.
generateGrid(latStart_, lonStart_, rows, cols, dLat, dLon) ==
    generateRows([latStart |-> latStart_, lonStart |-> lonStart_, rows |-> rows,
                  cols |-> cols, latStep |-> dLat, lonStep |-> dLon],
                 0, [zones |-> <<>>, zoneCount |-> 0]).zones

\* generateZones(latStart, lonStart) of DynamicGeofencing.
generateZones(latStart_, lonStart_) ==
    generateGrid(latStart_, lonStart_, numberOfRows, numberOfColumns, latStep, lonStep)

\* generateZones() of SanJoseDynamicGeofencing.
SJ_generateZones ==
    generateGrid(SJ_latStart, SJ_lonStart, SJ_numberOfRows, SJ_numberOfColumns,
                 SJ_latStep, SJ_lonStep)

RECURSIVE SumLatitude(_), SumLongitude(_)

SumLatitude(coordinates) ==
    IF coordinates = <<>> THEN 0
    ELSE SumLatitude(SubSeq(coordinates, 1, Len(coordinates) - 1))
            + coordinates[Len(coordinates)].latitude

SumLongitude(coordinates) ==
    IF coordinates = <<>> THEN 0
    ELSE SumLongitude(SubSeq(coordinates, 1, Len(coordinates) - 1))
            + coordinates[Len(coordinates)].longitude

\* Mutant: only the first two coordinates are averaged.
computeCentroid_firstEdge(coordinates) ==
    [ latitude  |-> (coordinates[1].latitude + coordinates[2].latitude) \div 2,
      longitude |-> (coordinates[1].longitude + coordinates[2].longitude) \div 2 ]

\* computeCentroid: the reduce from {0, 0}, then the division by the length
\* (exact for the rectangles of the grid, whose steps are even).
computeCentroid(coordinates) ==
    [ latitude  |-> SumLatitude(coordinates) \div Len(coordinates),
      longitude |-> SumLongitude(coordinates) \div Len(coordinates) ]

(***************************************************************************)
(* The refresh loop of the two map screens                                 *)
(***************************************************************************)
\* The positions getCurrentPositionAsync can report.
Locations ==
    { [latitude |-> 43470, longitude |-> -80540],
      [latitude |-> -33870, longitude |-> 151210] }

\* The temperature the weather API reports to batch b for zone i, in tenths of
\* a degree: the readings differ from zone to zone and from batch to batch.
Reading(b, i) == 25 * b + 3 * i - 40

\* The errors a zone's fetch can fail with: the one fetchTemperatureForZone
\* throws for a response that is not ok, and an error without a message.
FetchErrors ==
    { [message |-> "Failed to fetch temperature"], [message |-> ""] }

\* The zones the model follows.
PolledZones(zs) ==
    SubSeq(zs, 1, IF Len(zs) < MaxZones THEN Len(zs) ELSE MaxZones)

\* Mutant: a state update is applied although the component is unmounted.
setState_unmounted(current, new) == new

\* A setter of useState: React applies the update to a mounted component and
\* drops it for a component that has been unmounted.
setState(current, new) == IF mounted THEN new ELSE current

Pending == [st |-> "pending", temp |-> 0]

\* fetchZoneTemperatures(zonesToUpdate) up to its await: zonesToUpdate.map has
\* called fetchTemperatureForZone for every zone's centroid, each call has
\* counted itself, and Promise.all waits.  trigger is history: what made the
\* call.  late is history: whether the batch settled after the unmount.
NewBatch(zonesToUpdate, trigger) ==
    [ trigger       |-> trigger,
      zonesToUpdate |-> zonesToUpdate,
      requests      |-> [ i \in 1..Len(zonesToUpdate) |->
                            computeCentroid(zonesToUpdate[i].coordinates) ],
      results       |-> [ i \in 1..Len(zonesToUpdate) |-> Pending ],
      status        |-> "pending",
      late          |-> FALSE ]

\* Mutant: the call counter counts batches, not fetches.
fetchZoneTemperatures_countsBatches(zonesToUpdate, trigger) ==
    /\ batches' = Append(batches, NewBatch(zonesToUpdate, trigger))
    /\ apiCallCount' = apiCallCount + 1

fetchZoneTemperatures(zonesToUpdate, trigger) ==
    /\ batches' = Append(batches, NewBatch(zonesToUpdate, trigger))
    /\ apiCallCount' = apiCallCount + Len(zonesToUpdate)

ClearInterval_keeps(set, handle) == set

ClearInterval(set, handle) ==
    { tm \in set : handle = null \/ tm.id # handle[1] }

\* The polling effect of DynamicGeofencing, run for new values of its
\* dependencies [location, zones]: the cleanup of its last run, then its body.
PollingEffect(newLocation, newZones) ==
    IF newLocation # null /\ Len(newZones) > 0
    THEN /\ timers' = ClearInterval(timers, pollInterval)
                        \cup { [id |-> nextTimerId, kind |-> "poll", zones |-> newZones] }
         /\ pollInterval' = Some(nextTimerId)
         /\ nextTimerId' = nextTimerId + 1
    ELSE /\ timers' = ClearInterval(timers, pollInterval)
         /\ pollInterval' = null
         /\ UNCHANGED nextTimerId

CompInit ==
    /\ screen \in { "dynamic", "sanjose" }
    /\ mounted = TRUE
    /\ errorMsg = null
    /\ location = null
    /\ loading = TRUE
    /\ error = null
    /\ logInterval = Some(1)
    /\ pollTicks = 0
    /\ IF screen = "dynamic"
       THEN \* useState([]); the logging effect has set its interval; the
            \* location effect and the polling effect found location null.
            /\ locPc = "permission"
            /\ zones = <<>>
            /\ apiCallCount = 0
            /\ timers = { [id |-> 1, kind |-> "log", zones |-> <<>>] }
            /\ pollInterval = null
            /\ nextTimerId = 2
            /\ batches = <<>>
       ELSE \* useState(generateZones()); the logging effect has set its
            \* interval; the mount effect has called fetchZoneTemperatures()
            \* and set the polling interval, whose callback is the
            \* fetchZoneTemperatures of the first render and reads its zones.
            /\ locPc = "unused"
            /\ zones = PolledZones(SJ_generateZones)
            /\ apiCallCount = Len(zones)
            /\ timers = { [id |-> 1, kind |-> "log", zones |-> <<>>],
                          [id |-> 2, kind |-> "poll", zones |-> zones] }
            /\ pollInterval = Some(2)
            /\ nextTimerId = 3
            /\ batches = << NewBatch(zones, "mount") >>

\* useLocation: requestForegroundPermissionsAsync resolves with 'granted'.
PermissionGranted ==
    /\ locPc = "permission"
    /\ locPc' = "position"
    /\ UNCHANGED <<screen, mounted, location, errorMsg, zones, loading, error,
                   apiCallCount, timers, logInterval, pollInterval, nextTimerId,
                   batches, pollTicks, colorVars, gridVars, homeVars, weatherVars, mapVars>>

\* useLocation: the permission is not granted: setErrorMsg and return.
PermissionDenied ==
    /\ locPc = "permission"
    /\ locPc' = "done"
    /\ errorMsg' = setState(errorMsg, Some("Permission to access location was denied"))
    /\ UNCHANGED <<screen, mounted, location, zones, loading, error, apiCallCount,
                   timers, logInterval, pollInterval, nextTimerId, batches,
                   pollTicks, colorVars, gridVars, homeVars, weatherVars, mapVars>>

\* useLocation: getCurrentPositionAsync rejects; nothing catches it.
PositionFailed ==
    /\ locPc = "position"
    /\ locPc' = "done"
    /\ UNCHANGED <<screen, mounted, location, errorMsg, zones, loading, error,
                   apiCallCount, timers, logInterval, pollInterval, nextTimerId,
                   batches, pollTicks, colorVars, gridVars, homeVars, weatherVars, mapVars>>

\* Mutant: the location effect publishes the grid and fetches nothing.
LocationEffect_noFetch(loc) ==
    LET latStart_    == loc.latitude - (numberOfRows * latStep) \div 2
        lonStart_    == loc.longitude - (numberOfColumns * lonStep) \div 2
        initialZones == PolledZones(generateZones(latStart_, lonStart_))
    IN  /\ zones' = setState(zones, initialZones)
        /\ UNCHANGED <<batches, apiCallCount>>
        /\ PollingEffect(Some(loc), initialZones)

\* The location effect of DynamicGeofencing for a location that is not null,
\* and the polling effect that the new location and zones make run.
LocationEffect(loc) ==
    LET latStart_    == loc.latitude - (numberOfRows * latStep) \div 2
        lonStart_    == loc.longitude - (numberOfColumns * lonStep) \div 2
        initialZones == PolledZones(generateZones(latStart_, lonStart_))
    IN  /\ zones' = setState(zones, initialZones)
        /\ fetchZoneTemperatures(initialZones, "location")
        /\ PollingEffect(Some(loc), initialZones)

\* useLocation: getCurrentPositionAsync resolves: setLocation, and the
\* effects of DynamicGeofencing that depend on location.
PositionResolved ==
    /\ locPc = "position"
    /\ locPc' = "done"
    /\ \E loc \in Locations :
          /\ location' = setState(location, Some(loc))
          /\ IF mounted
             THEN LocationEffect(loc)
             ELSE UNCHANGED <<zones, batches, apiCallCount, timers, pollInterval,
                              nextTimerId>>
    /\ UNCHANGED <<screen, mounted, errorMsg, loading, error, logInterval, pollTicks,
                   colorVars, gridVars, homeVars, weatherVars, mapVars>>

\* The polling interval fires: its callback calls fetchZoneTemperatures with
\* the zones it was created with.
PollTick ==
    /\ Len(batches) < MaxBatches
    /\ \E tm \in timers :
          /\ tm.kind = "poll"
          /\ fetchZoneTemperatures(tm.zones, "tick")
    /\ pollTicks' = pollTicks + 1
    /\ UNCHANGED <<screen, mounted, locPc, location, errorMsg, zones, loading,
                   error, timers, logInterval, pollInterval, nextTimerId, colorVars, gridVars, homeVars, weatherVars, mapVars>>

\* The logging interval fires: log the counter and reset it (a tick that finds
\* the counter at 0 changes nothing).
LogTick ==
    /\ \E tm \in timers : tm.kind = "log"
    /\ apiCallCount # 0
    /\ apiCallCount' = 0
    /\ UNCHANGED <<screen, mounted, locPc, location, errorMsg, zones, loading,
                   error, timers, logInterval, pollInterval, nextTimerId, batches,
                   pollTicks, colorVars, gridVars, homeVars, weatherVars, mapVars>>

\* Mutant: the updated zones come out in the reverse order.
UpdatedZones_reversed(b, results) ==
    [ j \in 1..Len(batches[b].zonesToUpdate) |->
        [ batches[b].zonesToUpdate[Len(batches[b].zonesToUpdate) + 1 - j] EXCEPT
            !.temperature = Some(results[Len(batches[b].zonesToUpdate) + 1 - j].temp),
            !.batch = b ] ]

\* updatedZones: { ...zone, temperature: temp } for every zone of the batch.
UpdatedZones(b, results) ==
    [ j \in 1..Len(batches[b].zonesToUpdate) |->
        [ batches[b].zonesToUpdate[j] EXCEPT
            !.temperature = Some(results[j].temp), !.batch = b ] ]

\* Mutant: a batch that succeeds resets the error state.
FetchFulfilled_clearsError(b, i, t) ==
    /\ batches[b].results[i] = Pending
    /\ LET results == [batches[b].results EXCEPT ![i] = [st |-> "ok", temp |-> t]]
           joined  == \A j \in 1..Len(results) : results[j].st = "ok"
       IN  IF joined
           THEN /\ batches' = [batches EXCEPT
                                 ![b].results = results,
                                 ![b].status = "fulfilled",
                                 ![b].late = ~mounted]
                /\ zones' = setState(zones, UpdatedZones(b, results))
                /\ error' = setState(error, null)
                /\ loading' = setState(loading, FALSE)
                /\ IF mounted /\ screen = "dynamic"
                   THEN PollingEffect(location, UpdatedZones(b, results))
                   ELSE UNCHANGED <<timers, pollInterval, nextTimerId>>
           ELSE /\ batches' = [batches EXCEPT ![b].results = results]
                /\ UNCHANGED <<zones, error, loading, timers, pollInterval,
                               nextTimerId>>
    /\ UNCHANGED <<screen, mounted, locPc, location, errorMsg, apiCallCount,
                   logInterval, pollTicks, colorVars, gridVars, homeVars,
                   weatherVars, mapVars>>

\* Mutant: every temperature is published as soon as it arrives, in the
\* zones state as it is then.
FetchFulfilled_partial(b, i, t) ==
    /\ batches[b].results[i] = Pending
    /\ LET results == [batches[b].results EXCEPT ![i] = [st |-> "ok", temp |-> t]]
           joined  == \A j \in 1..Len(results) : results[j].st = "ok"
           updatedZones ==
               [ j \in 1..Len(zones) |->
                   IF j = i THEN [zones[j] EXCEPT !.temperature = Some(t), !.batch = b]
                   ELSE zones[j] ]
       IN  /\ batches' = [batches EXCEPT
                            ![b].results = results,
                            ![b].status = IF joined THEN "fulfilled" ELSE "pending",
                            ![b].late = joined /\ ~mounted]
           /\ zones' = setState(zones, updatedZones)
           /\ loading' = setState(loading, ~joined /\ loading)
           /\ IF mounted /\ screen = "dynamic"
              THEN PollingEffect(location, updatedZones)
              ELSE UNCHANGED <<timers, pollInterval, nextTimerId>>
    /\ UNCHANGED <<screen, mounted, locPc, location, errorMsg, error, apiCallCount,
                   logInterval, pollTicks, colorVars, gridVars, homeVars, weatherVars, mapVars>>

\* The fetch for zone i of batch b returns temperature t.  When it is the last
\* one Promise.all was waiting for, fetchZoneTemperatures goes on in the same
\* turn: setZones(updatedZones), then setLoading(false); in DynamicGeofencing
\* the new zones make the polling effect run.
FetchFulfilled(b, i, t) ==
    /\ batches[b].results[i] = Pending
    /\ LET results == [batches[b].results EXCEPT ![i] = [st |-> "ok", temp |-> t]]
           joined  == \A j \in 1..Len(results) : results[j].st = "ok"
       IN  IF joined
           THEN /\ batches' = [batches EXCEPT
                                 ![b].results = results,
                                 ![b].status = "fulfilled",
                                 ![b].late = ~mounted]
                /\ zones' = setState(zones, UpdatedZones(b, results))
                /\ loading' = setState(loading, FALSE)
                /\ IF mounted /\ screen = "dynamic"
                   THEN PollingEffect(location, UpdatedZones(b, results))
                   ELSE UNCHANGED <<timers, pollInterval, nextTimerId>>
           ELSE /\ batches' = [batches EXCEPT ![b].results = results]
                /\ UNCHANGED <<zones, loading, timers, pollInterval, nextTimerId>>
    /\ UNCHANGED <<screen, mounted, locPc, location, errorMsg, error, apiCallCount,
                   logInterval, pollTicks, colorVars, gridVars, homeVars, weatherVars, mapVars>>

\* Mutant: the catch block keeps the error to itself.
Caught_silent(err) == error

\* The catch block of fetchZoneTemperatures: setError(err.message || '...').
Caught(err) ==
    setState(error, Some(IF err.message # "" THEN err.message
                         ELSE "Error fetching temperatures"))

\* Mutant: the catch block calls fetchZoneTemperatures again.
FetchFailed_retrying(b, i, err) ==
    /\ batches[b].results[i] = Pending
    /\ batches' = Append([batches EXCEPT
                            ![b].results = [ j \in 1..Len(batches[b].results) |->
                                               IF j = i THEN [st |-> "failed", temp |-> 0]
                                               ELSE [st |-> "dropped", temp |-> 0] ],
                            ![b].status = "rejected",
                            ![b].late = ~mounted],
                         NewBatch(batches[b].zonesToUpdate, "retry"))
    /\ apiCallCount' = apiCallCount + Len(batches[b].zonesToUpdate)
    /\ error' = Caught(err)
    /\ loading' = setState(loading, FALSE)
    /\ UNCHANGED <<screen, mounted, locPc, location, errorMsg, zones,
                   timers, logInterval, pollInterval, nextTimerId, pollTicks,
                   colorVars, gridVars, homeVars, weatherVars, mapVars>>

\* The fetch for zone i of batch b fails with err, the first of its batch to
\* fail.  That rejects Promise.all, and fetchZoneTemperatures goes on in the
\* same turn: the catch block, then setLoading(false).  Nothing reads the other
\* fetches of the batch any more: the model stops following them.
FetchFailed(b, i, err) ==
    /\ batches[b].results[i] = Pending
    /\ batches' = [batches EXCEPT
                     ![b].results = [ j \in 1..Len(batches[b].results) |->
                                        IF j = i THEN [st |-> "failed", temp |-> 0]
                                        ELSE [st |-> "dropped", temp |-> 0] ],
                     ![b].status = "rejected",
                     ![b].late = ~mounted]
    /\ error' = Caught(err)
    /\ loading' = setState(loading, FALSE)
    /\ UNCHANGED <<screen, mounted, locPc, location, errorMsg, zones, apiCallCount,
                   timers, logInterval, pollInterval, nextTimerId, pollTicks,
                   colorVars, gridVars, homeVars, weatherVars, mapVars>>

\* Mutant: the unmount leaves the polling interval set.
Unmount_keepsPolling ==
    /\ mounted
    /\ mounted' = FALSE
    /\ timers' = ClearInterval(timers, logInterval)
    /\ UNCHANGED <<screen, locPc, location, errorMsg, zones, loading, error,
                   apiCallCount, logInterval, pollInterval, nextTimerId, batches,
                   pollTicks, colorVars, gridVars, homeVars, weatherVars, mapVars>>

\* The screen is unmounted: the cleanups of the logging effect and of the
\* polling effect (the mount effect, in the San Jose screen) clear their
\* intervals.
Unmount ==
    /\ mounted
    /\ mounted' = FALSE
    /\ timers' = ClearInterval(ClearInterval(timers, logInterval), pollInterval)
    /\ UNCHANGED <<screen, locPc, location, errorMsg, zones, loading, error,
                   apiCallCount, logInterval, pollInterval, nextTimerId, batches,
                   pollTicks, colorVars, gridVars, homeVars, weatherVars, mapVars>>

\* What DynamicGeofencing returns from its render: the first of its views
\* whose test holds, the tests taken in the order of the code.
DynamicView ==
    IF location = null THEN "Fetching your location..."
    ELSE IF errorMsg # null /\ errorMsg # Some("") THEN "Error: {errorMsg}"
    ELSE IF error # null /\ error # Some("") THEN "Error: {error}"
    ELSE "MapView"

Fetches == { <<b, i>> \in (1..MaxBatches) \X (1..MaxZones) :
                b <= Len(batches) /\ i <= Len(batches[b].results) }

CompNext ==
    \/ PermissionGranted
    \/ PermissionDenied
    \/ PositionFailed
    \/ PositionResolved
    \/ PollTick
    \/ LogTick
    \/ \E f \in Fetches : FetchFulfilled(f[1], f[2], Reading(f[1], f[2]))
    \/ \E f \in Fetches : \E err \in FetchErrors : FetchFailed(f[1], f[2], err)
    \/ Unmount

(***************************************************************************)
(* The colour screen: a zone's polygon is rendered with the zone's         *)
(* temperature, and again after the next refresh has replaced it.          *)
(***************************************************************************)
TempDomain ==
    (gradient[1].temp - TempMargin)..(gradient[Len(gradient)].temp + TempMargin)

\* The temperatures a zone can have after one more refresh.
NextTemps(t) == TempDomain \cap ((t - MaxDelta)..(t + MaxDelta))

ColorInit ==
    /\ temps = <<>>
    /\ fillColors = <<>>
    /\ sjFillColors = <<>>

\* A refresh (or the generation of the grid, for null) gives the zone its first
\* temperature, and one more refresh its second.
Refresh ==
    /\ Len(temps) < 2
    /\ Len(fillColors) = Len(temps)
    /\ \E t \in { null } \cup { Some(u) : u \in TempDomain } :
          /\ IF temps = <<>> \/ t = null THEN TRUE
             ELSE IF temps[1] = null THEN TRUE
             ELSE t[1] \in NextTemps(temps[1][1])
          /\ temps' = Append(temps, t)
    /\ UNCHANGED <<fillColors, sjFillColors, compVars, gridVars, homeVars, weatherVars, mapVars>>

\* <Polygon fillColor={getTemperatureColor(zone.temperature)} /> on both screens,
\* for the zone's latest temperature.
Render ==
    /\ Len(fillColors) < Len(temps)
    /\ fillColors' = Append(fillColors, getTemperatureColor(temps[Len(temps)]))
    /\ sjFillColors' = Append(sjFillColors, SJ_getTemperatureColor(temps[Len(temps)]))
    /\ UNCHANGED <<temps, compVars, gridVars, homeVars, weatherVars, mapVars>>

ColorNext == Refresh \/ Render

(***************************************************************************)
(* The grid screen: generateZones is called for an origin, and the markers *)
(* of the zones it returned are rendered one after the other.              *)
(***************************************************************************)
\* The origins generateZones(latStart, lonStart) is called with: the ones the
\* location effect computes for a position, and the ones around them.
Origins ==
    { [ latStart |-> loc.latitude - (numberOfRows * latStep) \div 2 + dLat,
        lonStart |-> loc.longitude - (numberOfColumns * lonStep) \div 2 + dLon ] :
        loc \in Locations, dLat \in (0 - OriginSpan)..OriginSpan,
        dLon \in (0 - OriginSpan)..OriginSpan }

\* Outside the grid screen nothing is generated.
GridIdle ==
    /\ origin = null
    /\ grid = <<>>
    /\ centroids = <<>>

GridInit ==
    /\ origin \in (IF screen = "dynamic" THEN { Some(o) : o \in Origins } ELSE { null })
    /\ grid = <<>>
    /\ centroids = <<>>

\* The call of generateZones: generateZones(latStart, lonStart) in the location
\* effect of DynamicGeofencing, generateZones() in the useState of the San
\* Jose screen.
GenerateZones ==
    /\ grid = <<>>
    /\ grid' = IF origin # null
               THEN generateZones(origin[1].latStart, origin[1].lonStart)
               ELSE SJ_generateZones
    /\ UNCHANGED <<origin, centroids, compVars, colorVars, homeVars, weatherVars, mapVars>>

\* zones.map((zone) => { const centroid = computeCentroid(zone.coordinates);
\* ... <Marker coordinate={centroid}> }), one zone at a step.
RenderMarker ==
    /\ Len(centroids) < Len(grid)
    /\ centroids' = Append(centroids,
                           computeCentroid(grid[Len(centroids) + 1].coordinates))
    /\ UNCHANGED <<origin, grid, compVars, colorVars, homeVars, weatherVars, mapVars>>

GridNext == GenerateZones \/ RenderMarker

(***************************************************************************)
(* HomeScreen: the city search                                             *)
(*                                                                         *)
(* The state setters change the state at once; the render that follows is  *)
(* a step of its own (Rerender), and until it is taken the handlers on the *)
(* screen are those of the previous render, closed over its state values.  *)
(* The latitude and longitude of a city (parseFloat of the result's lat    *)
(* and lon) are not followed.  An absent address field is "".              *)
(***************************************************************************)
\* The text typed into the city field; the inputs are its prefixes.
Typed == <<"o", "t", "t", "a", "w", "a">>

Inputs == { SubSeq(Typed, 1, n) : n \in 0..MaxNameLen }

\* a || b on strings.
OrElse(a, b) == IF a # "" THEN a ELSE b

\* What the search service answers to a query: a city, a town the service
\* knows no state of, and, to the shortest query only, a village.
SearchResults(query) ==
    LET ottawa  == [place_id |-> 101,
                    address |-> [city |-> "Ottawa", town |-> "", village |-> "",
                                 state |-> "Ontario", country |-> "Canada"]]
        otter   == [place_id |-> 102,
                    address |-> [city |-> "", town |-> "Otter Lake", village |-> "",
                                 state |-> "", country |-> "Canada"]]
        otterv  == [place_id |-> 103,
                    address |-> [city |-> "", town |-> "", village |-> "Otterville",
                                 state |-> "Ontario", country |-> "Canada"]]
    IN  IF Len(query) = 3 THEN <<ottawa, otter, otterv>> ELSE <<ottawa, otter>>

\* (addr.city || addr.town || addr.village) && addr.state && addr.country
HasCityStateCountry(result) ==
    LET addr == result.address
    IN  /\ OrElse(OrElse(addr.city, addr.town), addr.village) # ""
        /\ addr.state # ""
        /\ addr.country # ""

\* results.filter(...)
RECURSIVE Filtered(_)
Filtered(results) ==
    IF results = <<>> THEN <<>>
    ELSE IF HasCityStateCountry(Head(results))
         THEN <<Head(results)>> \o Filtered(Tail(results))
         ELSE Filtered(Tail(results))

\* The CityData handleSelectSuggestion builds from a suggestion.
NewCity(suggestion) ==
    LET addr == suggestion.address
    IN  [id      |-> ToString(suggestion.place_id),
         city    |-> OrElse(OrElse(OrElse(addr.city, addr.town), addr.village),
                            "Unknown City"),
         state   |-> OrElse(addr.state, "Unknown State"),
         country |-> OrElse(addr.country, "Unknown Country")]

\* cities.find(c => c.id === id), as a truth value.
Finds(cs, id) == \E i \in 1..Len(cs) : cs[i].id = id

\* The state values a render closes over.
HomeState ==
    [cities |-> cities, isAddingCity |-> isAddingCity,
     newCityName |-> newCityName, suggestions |-> suggestions]

Without(seq, i) == SubSeq(seq, 1, i - 1) \o SubSeq(seq, i + 1, Len(seq))

\* HomeScreen after its first render and the first run of its effects: the
\* timeout of the suggestions effect is pending with the empty input.
HomeInit ==
    /\ cities = <<>>
    /\ isAddingCity = FALSE
    /\ newCityName = <<>>
    /\ suggestions = <<>>
    /\ rendered = [cities |-> <<>>, isAddingCity |-> FALSE,
                   newCityName |-> <<>>, suggestions |-> <<>>]
    /\ timeouts = << <<>> >>
    /\ delayDebounce = TRUE
    /\ geocodes = <<>>
    /\ geocodeCalls = 0

\* The "+" button, on the screen while isAddingCity is false.
PressAdd ==
    /\ ~rendered.isAddingCity
    /\ isAddingCity' = TRUE
    /\ UNCHANGED <<cities, newCityName, suggestions, rendered, timeouts,
                   delayDebounce, geocodes, geocodeCalls, compVars, colorVars,
                   gridVars, weatherVars, mapVars>>

\* The "X" button, on the screen while isAddingCity is true.
PressCancel ==
    /\ rendered.isAddingCity
    /\ isAddingCity' = FALSE
    /\ newCityName' = <<>>
    /\ suggestions' = <<>>
    /\ UNCHANGED <<cities, rendered, timeouts, delayDebounce, geocodes,
                   geocodeCalls, compVars, colorVars, gridVars, weatherVars, mapVars>>

\* onChangeText={setNewCityName}
ChangeText ==
    /\ rendered.isAddingCity
    /\ \E text \in Inputs :
        /\ text # newCityName
        /\ newCityName' = text
    /\ UNCHANGED <<cities, isAddingCity, suggestions, rendered, timeouts,
                   delayDebounce, geocodes, geocodeCalls, compVars, colorVars,
                   gridVars, weatherVars, mapVars>>

\* handleSelectSuggestion of the latest render, called from a row of its
\* dropdown.
handleSelectSuggestion(suggestion) ==
    IF ~Finds(rendered.cities, NewCity(suggestion).id)
    THEN Append(cities, NewCity(suggestion))
    ELSE cities

SelectSuggestion ==
    /\ rendered.isAddingCity
    /\ Len(cities) < MaxCities
    /\ \E k \in 1..Len(rendered.suggestions) :
        cities' = handleSelectSuggestion(rendered.suggestions[k])
    /\ newCityName' = <<>>
    /\ suggestions' = <<>>
    /\ isAddingCity' = FALSE
    /\ UNCHANGED <<rendered, timeouts, delayDebounce, geocodes, geocodeCalls,
                   compVars, colorVars, gridVars, weatherVars, mapVars>>

\* The cleanup of the suggestions effect, clearTimeout(delayDebounce): the
\* timeout of the latest run of the effect, if pending, is the last one
\* created.
ClearTimeout_keeps == timeouts

ClearTimeout ==
    IF delayDebounce THEN SubSeq(timeouts, 1, Len(timeouts) - 1) ELSE timeouts

\* A render after a change of state, and the suggestions effect when
\* newCityName is not the one of the previous render: its cleanup, then its
\* setTimeout.
Rerender ==
    /\ rendered # HomeState
    /\ rendered' = HomeState
    /\ IF newCityName # rendered.newCityName
       THEN /\ timeouts' = Append(ClearTimeout, newCityName)
            /\ delayDebounce' = TRUE
       ELSE UNCHANGED <<timeouts, delayDebounce>>
    /\ UNCHANGED <<cities, isAddingCity, newCityName, suggestions, geocodes,
                   geocodeCalls, compVars, colorVars, gridVars, weatherVars, mapVars>>

\* A timeout fires and runs fetchSuggestions up to its await, with the
\* newCityName its effect has closed over.
fetchSuggestions(name) == Len(name) > 2

DebounceFires ==
    \E i \in 1..Len(timeouts) :
        LET name == timeouts[i]
        IN  /\ fetchSuggestions(name) => geocodeCalls < MaxGeocodes
            /\ timeouts' = Without(timeouts, i)
            /\ delayDebounce' = (delayDebounce /\ i # Len(timeouts))
            /\ IF fetchSuggestions(name)
               THEN /\ geocodes' = Append(geocodes, name)
                    /\ geocodeCalls' = geocodeCalls + 1
                    /\ UNCHANGED suggestions
               ELSE /\ suggestions' = <<>>
                    /\ UNCHANGED <<geocodes, geocodeCalls>>
            /\ UNCHANGED <<cities, isAddingCity, newCityName, rendered,
                           compVars, colorVars, gridVars, weatherVars, mapVars>>

\* await geocode(newCityName) returns: the rest of the try block.
GeocodeResolved ==
    \E i \in 1..Len(geocodes) :
        /\ suggestions' = Filtered(SearchResults(geocodes[i]))
        /\ geocodes' = Without(geocodes, i)
        /\ UNCHANGED <<cities, isAddingCity, newCityName, rendered, timeouts,
                       delayDebounce, geocodeCalls, compVars, colorVars, gridVars, weatherVars, mapVars>>

\* await geocode(newCityName) throws: the catch block.
GeocodeFailed ==
    \E i \in 1..Len(geocodes) :
        /\ suggestions' = <<>>
        /\ geocodes' = Without(geocodes, i)
        /\ UNCHANGED <<cities, isAddingCity, newCityName, rendered, timeouts,
                       delayDebounce, geocodeCalls, compVars, colorVars, gridVars, weatherVars, mapVars>>

HomeNext ==
    \/ PressAdd
    \/ PressCancel
    \/ ChangeText
    \/ SelectSuggestion
    \/ Rerender
    \/ DebounceFires
    \/ GeocodeResolved
    \/ GeocodeFailed

(***************************************************************************)
(* useWeather                                                              *)
(*                                                                         *)
(* One instance of the hook, in a component that passes it the coordinates *)
(* of its latest render (CityWeatherItem, ForecastMap).  A response stands *)
(* for its content by the coordinates of its request and, as history, the  *)
(* number of the call.                                                     *)
(***************************************************************************)
\* The coordinates passed to the hook: positions on one meridian, and
\* undefined.
Latitudes == {null} \cup { Some(c) : c \in 1..MaxCoordinate }

Longitudes == {null, Some(1)}

\* The failures of a fetch: the messages of the errors thrown in the try
\* block, by fetch itself and by the test of response.ok.
FetchFailures ==
    { "Network request failed", "Network response was not ok (500)" }

\* A setter of the hook's state, dropped once the component is unmounted.
setWeatherState(current, new) == IF weatherMounted THEN new ELSE current

\* The mount of the component before its coordinates are known: the effect
\* returns at its first test.
WeatherInit ==
    /\ latitude = null
    /\ longitude = null
    /\ weatherData = null
    /\ weatherLoading = TRUE
    /\ weatherError = null
    /\ weatherMounted = TRUE
    /\ weatherFetches = <<>>
    /\ fetchCount = 0

\* The effect of useWeather for the coordinates lat and lon: fetchWeather up
\* to its await fetch(url).
fetchWeather_alwaysFetches(lat, lon) == TRUE

fetchWeather(lat, lon) == ~(lat = null \/ lon = null)

\* A render with other coordinates, and the effect that follows it.
CoordinatesChange ==
    /\ weatherMounted
    /\ \E lat \in Latitudes, lon \in Longitudes :
        /\ <<lat, lon>> # <<latitude, longitude>>
        /\ latitude' = lat
        /\ longitude' = lon
        /\ IF fetchWeather(lat, lon)
           THEN /\ fetchCount < MaxFetches
                /\ weatherLoading' = TRUE
                /\ fetchCount' = fetchCount + 1
                /\ weatherFetches' =
                       Append(weatherFetches,
                              [latitude |-> lat, longitude |-> lon,
                               call |-> fetchCount + 1])
           ELSE UNCHANGED <<weatherLoading, weatherFetches, fetchCount>>
    /\ UNCHANGED <<weatherData, weatherError, weatherMounted, compVars,
                   colorVars, gridVars, homeVars, mapVars>>

\* A fetch returns an ok response and response.json() its content: setData,
\* then the finally block.
WeatherFulfilled ==
    \E i \in 1..Len(weatherFetches) :
        /\ weatherData' = setWeatherState(weatherData, Some(weatherFetches[i]))
        /\ weatherLoading' = setWeatherState(weatherLoading, FALSE)
        /\ weatherFetches' = Without(weatherFetches, i)
        /\ UNCHANGED <<latitude, longitude, weatherError, weatherMounted,
                       fetchCount, compVars, colorVars, gridVars, homeVars, mapVars>>

\* A fetch fails or returns a response that is not ok: the catch block, then
\* the finally block.
WeatherFailed ==
    \E i \in 1..Len(weatherFetches), message \in FetchFailures :
        /\ weatherError' = setWeatherState(weatherError, Some(message))
        /\ weatherLoading' = setWeatherState(weatherLoading, FALSE)
        /\ weatherFetches' = Without(weatherFetches, i)
        /\ UNCHANGED <<latitude, longitude, weatherData, weatherMounted, fetchCount,
                       compVars, colorVars, gridVars, homeVars, mapVars>>

\* The component is unmounted; the effect has no cleanup.
WeatherUnmount ==
    /\ weatherMounted
    /\ weatherMounted' = FALSE
    /\ UNCHANGED <<latitude, longitude, weatherData, weatherLoading,
                   weatherError, weatherFetches, fetchCount, compVars,
                   colorVars, gridVars, homeVars, mapVars>>

WeatherNext ==
    \/ CoordinatesChange
    \/ WeatherFulfilled
    \/ WeatherFailed
    \/ WeatherUnmount

(***************************************************************************)
(* ForecastMap: the position subscription                                  *)
(*                                                                         *)
(* A run of the location effect is a record: the tracking value its        *)
(* callback has closed over, how far its async function has come           *)
(* ("permission": awaiting requestForegroundPermissionsAsync, "watching":  *)
(* awaiting watchPositionAsync, "subscribed": the subscription is assigned *)
(* and active, "removed", "denied"), and whether its cleanup has run.  The *)
(* latest run is the last one.  A render follows every change of state at  *)
(* once.  Regions are in hundredths of a degree.                           *)
(***************************************************************************)
Positions == 1..MaxPosition

\* The region the callback of watchPositionAsync and the region effect set.
RegionAt(loc) ==
    [latitude |-> loc, longitude |-> loc, latitudeDelta |-> 5, longitudeDelta |-> 5]

\* The regions the user can move the map to.
PannedRegions ==
    { [latitude |-> 0, longitude |-> 0, latitudeDelta |-> 20, longitudeDelta |-> 20] }

\* A setter of the component's state, dropped once it is unmounted.
setMapState(current, new) == IF mapMounted THEN new ELSE current

\* A new run of the location effect, up to its first await.
NewEffect(trackingValue) ==
    [tracking |-> trackingValue, stage |-> "permission", cleaned |-> FALSE]

\* The cleanup of the latest run of the location effect:
\* if (subscription) subscription.remove().
Cleanup(run) ==
    [run EXCEPT !.stage = IF run.stage = "subscribed" THEN "removed" ELSE run.stage,
                !.cleaned = TRUE]

\* ForecastMap after its first render and the first run of its effects.
MapInit ==
    /\ mapLocation = null
    /\ locationError = null
    /\ tracking = TRUE
    /\ region = null
    /\ mapMounted = TRUE
    /\ effects = << NewEffect(TRUE) >>

\* requestForegroundPermissionsAsync resolves in run e: with 'granted' the
\* function goes on to call watchPositionAsync, otherwise it sets the error
\* and returns.
MapPermissionResolved ==
    \E e \in 1..Len(effects), granted \in BOOLEAN :
        /\ effects[e].stage = "permission"
        /\ IF granted
           THEN /\ effects' = [effects EXCEPT ![e].stage = "watching"]
                /\ UNCHANGED locationError
           ELSE /\ effects' = [effects EXCEPT ![e].stage = "denied"]
                /\ locationError' =
                       setMapState(locationError,
                                   Some("Permission to access location was denied"))
        /\ UNCHANGED <<mapLocation, tracking, region, mapMounted, compVars,
                       colorVars, gridVars, homeVars, weatherVars>>

\* watchPositionAsync resolves in run e: the subscription is assigned to the
\* variable of that run and is active.
WatchResolved ==
    \E e \in 1..Len(effects) :
        /\ effects[e].stage = "watching"
        /\ effects' = [effects EXCEPT ![e].stage = "subscribed"]
        /\ UNCHANGED <<mapLocation, locationError, tracking, region, mapMounted,
                       compVars, colorVars, gridVars, homeVars, weatherVars>>

\* The subscription of run e reports a position: its callback, then, after
\* the render, the region effect.
PositionUpdate ==
    \E e \in 1..Len(effects), loc \in Positions :
        /\ effects[e].stage = "subscribed"
        /\ Some(loc) # mapLocation
        /\ mapLocation' = setMapState(mapLocation, Some(loc))
        /\ region' = IF effects[e].tracking \/ region = null
                     THEN setMapState(region, Some(RegionAt(loc)))
                     ELSE region
        /\ UNCHANGED <<locationError, tracking, mapMounted, effects, compVars,
                       colorVars, gridVars, homeVars, weatherVars>>

\* The map is on the screen: neither of the two early returns is taken.
MapRendered ==
    mapMounted /\ locationError = null /\ mapLocation # null /\ region # null

\* The toggle button; the change of tracking makes the location effect run
\* again: the cleanup of its latest run, then a new run.
ToggleTracking ==
    /\ MapRendered
    /\ Len(effects) < MaxEffects
    /\ tracking' = ~tracking
    /\ region' = IF tracking THEN region
                 ELSE Some([latitude |-> mapLocation[1],
                            longitude |-> mapLocation[1],
                            latitudeDelta |-> region[1].latitudeDelta,
                            longitudeDelta |-> region[1].longitudeDelta])
    /\ effects' = Append([effects EXCEPT ![Len(effects)] = Cleanup(@)],
                         NewEffect(~tracking))
    /\ UNCHANGED <<mapLocation, locationError, mapMounted, compVars, colorVars,
                   gridVars, homeVars, weatherVars>>

\* onRegionChangeComplete after the user has moved the map.
RegionChangeComplete ==
    /\ MapRendered
    /\ ~tracking
    /\ \E newRegion \in PannedRegions :
        /\ Some(newRegion) # region
        /\ region' = Some(newRegion)
    /\ UNCHANGED <<mapLocation, locationError, tracking, mapMounted, effects,
                   compVars, colorVars, gridVars, homeVars, weatherVars>>

\* ForecastMap is unmounted: the cleanup of the latest run of the effect.
MapUnmount ==
    /\ mapMounted
    /\ mapMounted' = FALSE
    /\ effects' = [effects EXCEPT ![Len(effects)] = Cleanup(@)]
    /\ UNCHANGED <<mapLocation, locationError, tracking, region, compVars,
                   colorVars, gridVars, homeVars, weatherVars>>

MapNext ==
    \/ MapPermissionResolved
    \/ WatchResolved
    \/ PositionUpdate
    \/ ToggleTracking
    \/ RegionChangeComplete
    \/ MapUnmount

(***************************************************************************)
(* Specifications                                                          *)
(***************************************************************************)
\* The refresh loop of a map screen, from its mount on.
Init == CompInit /\ ColorInit /\ GridIdle /\ HomeInit /\ WeatherInit
        /\ MapInit

Next == CompNext

Spec == Init /\ [][Next]_vars

\* The colours of one zone of a mounted screen.
InitColor == CompInit /\ ColorInit /\ GridIdle /\ HomeInit /\ WeatherInit
        /\ MapInit

NextColor == ColorNext

SpecColor == InitColor /\ [][NextColor]_vars

\* The grid of a mounted screen and its markers.
InitGrid == CompInit /\ ColorInit /\ GridInit /\ HomeInit /\ WeatherInit
        /\ MapInit

NextGrid == GridNext

SpecGrid == InitGrid /\ [][NextGrid]_vars

\* The city search of HomeScreen.
InitHome == CompInit /\ ColorInit /\ GridIdle /\ HomeInit /\ WeatherInit
        /\ MapInit

NextHome == HomeNext

SpecHome == InitHome /\ [][NextHome]_vars

\* One instance of useWeather.
InitWeather == CompInit /\ ColorInit /\ GridIdle /\ HomeInit /\ WeatherInit
        /\ MapInit

NextWeather == WeatherNext

SpecWeather == InitWeather /\ [][NextWeather]_vars

\* The position subscription of ForecastMap.
InitMap == CompInit /\ ColorInit /\ GridIdle /\ HomeInit /\ WeatherInit
        /\ MapInit

NextMap == MapNext

SpecMap == InitMap /\ [][NextMap]_vars

(***************************************************************************)
(* Claims about the refresh loop (checked under Spec)                      *)
(***************************************************************************)
\* Batch b is rejected in this step: one of its fetches fails.
Rejects(b) == batches[b].status = "pending" /\ batches'[b].status = "rejected"

\* C1, as stated: whenever a batch fails, the zones state is left as it was and
\* the error state is set to a message.
C1_AllOrNothing ==
    [][ \A b \in 1..Len(batches) :
            Rejects(b) => (zones' = zones /\ error' # null) ]_vars

\* C1, amended: whenever a batch fails while the screen is mounted, the zones
\* state is left as it was and the error state is set to a message that is
\* not empty.
C1_AllOrNothingWhileMounted ==
    [][ \A b \in 1..Len(batches) :
            (Rejects(b) /\ mounted)
                => (zones' = zones /\ error' # null /\ error'[1] # "") ]_vars

\* A batch has failed on the mounted screen while the zones showed the
\* temperatures of an earlier batch, and they still do.
C1_Witness ==
    \E b \in 1..Len(batches) :
        /\ batches[b].status = "rejected"
        /\ ~batches[b].late
        /\ error # null
        /\ Len(zones) >= 2
        /\ \A i \in 1..Len(zones) :
              zones[i].temperature # null /\ zones[i].batch # b

\* C2: the zones state is empty, or a grid without any temperature, or the
\* complete result of one fulfilled batch: every zone's temperature is the one
\* that batch fetched for it.
C2_AtomicPublication ==
    \/ zones = <<>>
    \/ \A i \in 1..Len(zones) : zones[i].temperature = null /\ zones[i].batch = 0
    \/ \E b \in 1..Len(batches) :
          /\ batches[b].status = "fulfilled"
          /\ Len(batches[b].results) = Len(zones)
          /\ \A i \in 1..Len(zones) :
                /\ zones[i].batch = b
                /\ zones[i].temperature = Some(batches[b].results[i].temp)

\* The zones show one batch's temperatures while another batch has some of its
\* temperatures and waits for the others.
C2_Witness ==
    /\ Len(zones) >= 2
    /\ \A i \in 1..Len(zones) : zones[i].temperature # null
    /\ \E b \in 1..Len(batches) :
          /\ batches[b].status = "pending"
          /\ \E i \in 1..Len(zones) : batches[b].results[i].st = "ok"
          /\ \E i \in 1..Len(zones) : batches[b].results[i] = Pending

C4_TimersReleased ==
    [][ /\ ~mounted' => timers' = {}
        /\ ~mounted => Len(batches') = Len(batches) ]_vars

\* DynamicGeofencing was unmounted after a batch had failed, with its polling
\* interval set until then.
C4_Witness ==
    /\ screen = "dynamic"
    /\ ~mounted
    /\ timers = {}
    /\ pollInterval # null
    /\ error # null

\* C5: in DynamicGeofencing no batch is started while the location is null;
\* the first batch is the one the location effect starts; every other batch
\* was started by a tick of the polling interval.
C5_RefreshTriggering ==
    screen = "dynamic" =>
        /\ location = null => batches = <<>>
        /\ location # null => (Len(batches) >= 1 /\ batches[1].trigger = "location")
        /\ \A b \in 2..Len(batches) : batches[b].trigger = "tick"
        /\ Len(batches) = (IF location = null THEN 0 ELSE 1) + pollTicks

C5_Witness ==
    /\ screen = "dynamic"
    /\ location # null
    /\ pollTicks >= 1
    /\ Len(batches) = 1 + pollTicks

\* What generateZones returns for the screen as it is: for the origin the
\* location effect computes in DynamicGeofencing (nothing before the location
\* is known), for the fixed origin in the San Jose screen.
Generated ==
    IF screen = "sanjose" THEN SJ_generateZones
    ELSE IF location = null THEN <<>>
    ELSE generateZones(location[1].latitude - (numberOfRows * latStep) \div 2,
                       location[1].longitude - (numberOfColumns * lonStep) \div 2)

\* generateZones has been called and its zones are being fetched for the first
\* time, no answer having arrived yet.
JustGenerated ==
    /\ Len(batches) = 1
    /\ \A i \in 1..Len(batches[1].results) : batches[1].results[i] = Pending

\* C16: every zone generateZones returns has no temperature (looked at when
\* the grid has just been generated), and as long as no batch of the screen
\* has succeeded, no zone of the zones state has one.
C16_AbsentUntilFirstSuccess ==
    /\ JustGenerated =>
          /\ Len(Generated) = 48
          /\ \A i \in 1..Len(Generated) : Generated[i].temperature = null
    /\ (\A b \in 1..Len(batches) : batches[b].status # "fulfilled")
          => \A i \in 1..Len(zones) : zones[i].temperature = null

\* The first batch has failed and the second has fetched one temperature and
\* waits for the others: the grid is published, still without temperatures.
C16_Witness ==
    /\ Len(batches) = 2
    /\ batches[1].status = "rejected" /\ ~batches[1].late
    /\ batches[2].status = "pending"
    /\ \E i \in 1..Len(batches[2].results) : batches[2].results[i].st = "ok"
    /\ Len(zones) >= 2
    /\ \A i \in 1..Len(zones) : zones[i].temperature = null

\* Batch b succeeds in this step: the last of its fetches is answered.
Succeeds(b) == batches[b].status = "pending" /\ batches'[b].status = "fulfilled"

\* The zones zs and ws are the same zones in the same order, whatever their
\* temperatures: as many, with the same identifiers and coordinates.
SameFrame(zs, ws) ==
    /\ Len(zs) = Len(ws)
    /\ \A i \in 1..Len(zs) :
          /\ zs[i].id = ws[i].id
          /\ zs[i].coordinates = ws[i].coordinates

\* C18: a batch that succeeds leaves the number of the published zones, their
\* order, their identifiers and their coordinates as they were; and the zones
\* state changes in no other step than the success of a batch and the
\* publication of the newly generated grid (rendering, the start of a batch
\* with its centroids, and a failure change no zone).
C18_RefreshFrame ==
    [][ /\ \A b \in 1..Len(batches) : Succeeds(b) => SameFrame(zones, zones')
        /\ zones' # zones =>
              \/ zones = <<>> /\ batches = <<>>
              \/ \E b \in 1..Len(batches) : Succeeds(b) ]_vars

\* Two batches have succeeded on the mounted screen, the second replacing the
\* temperatures of the first in zone1 and zone2.
C18_Witness ==
    /\ Len(batches) = 2
    /\ \A b \in 1..2 : batches[b].status = "fulfilled" /\ ~batches[b].late
    /\ Len(zones) = 2
    /\ zones[1].id = "zone1" /\ zones[2].id = "zone2"
    /\ \A i \in 1..2 :
          /\ zones[i].batch = 2
          /\ zones[i].temperature # Some(batches[1].results[i].temp)
          /\ zones[i].coordinates = batches[1].zonesToUpdate[i].coordinates

\* C19: whenever useLocation reports an errorMsg that is not null (the
\* location permission was denied), the mounted DynamicGeofencing shows the
\* view with the location error message, not the loading view 'Fetching your
\* location...'.
C19_LocationErrorVisible ==
    (screen = "dynamic" /\ mounted /\ errorMsg # null)
        => DynamicView = "Error: {errorMsg}"

\* C20: the failure of a batch starts no batch and no fetch, and leaves the
\* polling interval set as it was; after the screen's first batch, a batch is
\* only ever started by a tick of the polling interval, and it starts afresh,
\* with one unanswered fetch for each of its zones.
C20_NoRetry ==
    [][ /\ \A b \in 1..Len(batches) :
              Rejects(b) => /\ Len(batches') = Len(batches)
                            /\ apiCallCount' = apiCallCount
                            /\ timers' = timers
                            /\ pollInterval' = pollInterval
        /\ (Len(batches) >= 1 /\ Len(batches') # Len(batches)) =>
              /\ Len(batches') = Len(batches) + 1
              /\ pollTicks' = pollTicks + 1
              /\ batches'[Len(batches')].trigger = "tick"
              /\ batches'[Len(batches')].status = "pending"
              /\ \A i \in 1..Len(batches'[Len(batches')].results) :
                    batches'[Len(batches')].results[i] = Pending ]_vars

\* The first batch has failed on the mounted screen; the polling interval is
\* still set, and the batch its tick started waits for all its fetches.
C20_Witness ==
    /\ mounted
    /\ error # null
    /\ Len(batches) = 2
    /\ batches[1].status = "rejected"
    /\ batches[2].trigger = "tick"
    /\ batches[2].status = "pending"
    /\ \A i \in 1..Len(batches[2].results) : batches[2].results[i] = Pending
    /\ \E tm \in timers : tm.kind = "poll"
    /\ pollTicks = 1

\* The request q asks for the mean of the four corners of zone z.
AsksForCentroid(q, z) ==
    /\ 4 * q.latitude = z.coordinates[1].latitude + z.coordinates[2].latitude
                          + z.coordinates[3].latitude + z.coordinates[4].latitude
    /\ 4 * q.longitude = z.coordinates[1].longitude + z.coordinates[2].longitude
                           + z.coordinates[3].longitude + z.coordinates[4].longitude

\* C21: the step that starts a batch over N zones issues exactly N fetches,
\* the i-th for the centroid of the i-th zone, none of them answered in that
\* step, and adds exactly N to the API-call counter; the step in which a
\* fetch is answered or fails issues no fetch and leaves the counter alone.
\* (The San Jose screen starts its first batch while it mounts.)
C21_OneFetchPerZone ==
    /\ screen = "sanjose" =>
          /\ Len(batches) = 1
          /\ Len(batches[1].requests) = Len(zones)
          /\ apiCallCount = Len(zones)
    /\ [][ /\ Len(batches') # Len(batches) =>
                  LET new == batches'[Len(batches')]
                      N   == Len(new.zonesToUpdate)
                  IN  /\ Len(batches') = Len(batches) + 1
                      /\ Len(new.requests) = N
                      /\ Len(new.results) = N
                      /\ \A i \in 1..N :
                            /\ AsksForCentroid(new.requests[i], new.zonesToUpdate[i])
                            /\ new.results[i] = Pending
                      /\ apiCallCount' = apiCallCount + N
            /\ \A b \in 1..Len(batches) :
                  batches'[b].results # batches[b].results =>
                      /\ apiCallCount' = apiCallCount
                      /\ batches'[b].requests = batches[b].requests
                      /\ Len(batches') = Len(batches) ]_vars

\* Two batches over two zones each have been started and four calls counted,
\* although the first batch has failed.
C21_Witness ==
    /\ Len(batches) = 2
    /\ batches[1].status = "rejected"
    /\ Len(batches[1].requests) = 2 /\ Len(batches[2].requests) = 2
    /\ batches[1].requests[1] # batches[1].requests[2]
    /\ apiCallCount = 4

\* C26: once the error state is set it is never cleared: it is non-null in
\* every later state, also in the step in which a later batch succeeds and
\* publishes its temperatures.
C26_StickyError ==
    [][ /\ error # null => error' # null
        /\ \A b \in 1..Len(batches) :
              (Succeeds(b) /\ mounted /\ error # null)
                  => (error' = error /\ zones' # zones) ]_vars

\* On the mounted screen the first batch has failed and the second, started
\* by the polling interval, has succeeded and published its temperatures
\* while the error state is still set.
C26_Witness ==
    /\ mounted
    /\ error # null
    /\ Len(batches) = 2
    /\ batches[1].status = "rejected"
    /\ batches[2].status = "fulfilled"
    /\ \A i \in 1..Len(zones) : zones[i].batch = 2 /\ zones[i].temperature # null

\* C27: the published temperatures come from the latest-started batch among
\* those that have succeeded on the mounted screen: no zone holds the
\* temperature of a batch started before such a batch.
C27_BatchOrdering ==
    \A b \in 1..Len(batches) :
        (batches[b].status = "fulfilled" /\ ~batches[b].late)
            => \A i \in 1..Len(zones) : zones[i].batch >= b

\* The polling intervals that are set.
PollingIntervals == { tm \in timers : tm.kind = "poll" }

\* C28: in DynamicGeofencing at most one polling interval is set, and none
\* while the location is unavailable or the zones are empty; a step that
\* publishes new zones leaves no interval set before it, and sets one whose
\* callback reads the new zones.
C28_SinglePollingTimer ==
    /\ [](screen = "dynamic" =>
            /\ Cardinality(PollingIntervals) <= 1
            /\ (location = null \/ Len(zones) = 0) => PollingIntervals = {})
    /\ [][ (screen = "dynamic" /\ zones' # zones) =>
              /\ PollingIntervals \cap PollingIntervals' = {}
              /\ \E tm \in PollingIntervals' :
                    /\ tm.zones = zones'
                    /\ PollingIntervals' = {tm}
                    /\ pollInterval' = Some(tm.id) ]_vars

\* DynamicGeofencing has published the temperatures of a batch, and the one
\* polling interval set is the third it has created.
C28_Witness ==
    /\ screen = "dynamic"
    /\ mounted
    /\ \A i \in 1..Len(zones) : zones[i].batch = 2
    /\ Cardinality(PollingIntervals) = 1
    /\ \E tm \in PollingIntervals : tm.zones = zones /\ tm.id = 4

(***************************************************************************)
(* Claims about the colour functions (checked under SpecColor)             *)
(***************************************************************************)
\* The renders done so far: k is the index of a temperature already rendered.
Rendered == 1..Len(fillColors)

\* The stops' colours as the screen shows them, alpha 0.5.
StopColor(i) ==
    Rgba(gradient[i].color[1], gradient[i].color[2], gradient[i].color[3], "0.5")

Between(x, a, b) == (a <= x /\ x <= b) \/ (b <= x /\ x <= a)

\* C6, as stated: getTemperatureColor(2.5) is RGB(247,251,204), the rounded
\* midpoint of the stops at 0 and at 5.
C6_MidpointOfZeroAndFive ==
    \A k \in Rendered :
        temps[k] = Some(25) => fillColors[k] = Rgba(247, 251, 204, "0.5")

\* C6, amended: 2.5 is itself a stop of the table, between the stops at 0 and
\* at 5, and getTemperatureColor(2.5) is that stop's colour RGB(255,255,224).
C6_StopAtTwoPointFive ==
    \A k \in Rendered :
        temps[k] = Some(25) => fillColors[k] = Rgba(255, 255, 224, "0.5")

C6_Witness ==
    \E k \in Rendered :
        /\ temps[k] = Some(25)
        /\ \E i \in 1..Len(gradient) :
              gradient[i].temp = 25 /\ fillColors[k] = StopColor(i)

\* C7: at the temperature of any stop of the table (first, last, interior),
\* getTemperatureColor returns exactly that stop's colour with alpha 0.5.
C7_ExactBreakpoints ==
    \A k \in Rendered : \A i \in 1..Len(gradient) :
        temps[k] = Some(gradient[i].temp) => fillColors[k] = StopColor(i)

\* An interior stop, where the loop's test holds for two adjacent pairs whose
\* other stops have other colours, has been rendered.
C7_Witness ==
    \E k \in Rendered : \E i \in 2..(Len(gradient) - 1) :
        /\ temps[k] = Some(gradient[i].temp)
        /\ Cardinality(enclosing(gradient[i].temp)) = 2
        /\ gradient[i].color # gradient[i - 1].color
        /\ gradient[i].color # gradient[i + 1].color
        /\ fillColors[k] = StopColor(i)

\* C8: at or below the first stop the colour is the first stop's, at or above
\* the last stop it is the last stop's, both with alpha 0.5 (no extrapolation).
C8_Clamping ==
    \A k \in Rendered :
        temps[k] # null =>
            /\ temps[k][1] <= gradient[1].temp => fillColors[k] = StopColor(1)
            /\ temps[k][1] >= gradient[Len(gradient)].temp
                  => fillColors[k] = StopColor(Len(gradient))

\* Two temperatures above the last stop have been rendered, the second one
\* further away than the first, with the last stop's colour.
C8_Witness ==
    /\ Len(fillColors) = 2
    /\ temps[1] # null /\ temps[2] # null
    /\ temps[1][1] > gradient[Len(gradient)].temp
    /\ temps[2][1] > temps[1][1]
    /\ fillColors[2] = StopColor(Len(gradient))

\* C9: for an absent temperature both screens' getTemperatureColor return the
\* neutral gray (128,128,128) with alpha 0.3.
C9_AbsentIsGray ==
    \A k \in Rendered :
        temps[k] = null =>
            /\ fillColors[k] = Rgba(128, 128, 128, "0.3")
            /\ sjFillColors[k] = Rgba(128, 128, 128, "0.3")

C9_Witness ==
    /\ Len(fillColors) = 2
    /\ temps[1] # null
    /\ temps[2] = null
    /\ fillColors[2].alpha = "0.3"
    /\ sjFillColors[2].alpha = "0.3"

\* The channels c (an rgba colour) as a triple.
Channels(c) == <<c.r, c.g, c.b>>

\* C10: strictly between two adjacent stops a and b every channel lies between
\* a's and b's, and for t1 <= t2 in one segment [a, b] every channel moves
\* weakly from a's value towards b's, rounding included.
C10_ConvexMonotone ==
    \A i \in 1..(Len(gradient) - 1) :
        LET a == gradient[i]
            b == gradient[i + 1]
        IN  /\ \A k \in Rendered :
                  (temps[k] # null /\ a.temp < temps[k][1] /\ temps[k][1] < b.temp)
                      => \A c \in 1..3 :
                            Between(Channels(fillColors[k])[c], a.color[c], b.color[c])
            /\ \A k1 \in Rendered, k2 \in Rendered :
                  ( /\ temps[k1] # null /\ temps[k2] # null
                    /\ a.temp <= temps[k1][1] /\ temps[k1][1] <= temps[k2][1]
                    /\ temps[k2][1] <= b.temp )
                      => \A c \in 1..3 :
                            IF a.color[c] <= b.color[c]
                            THEN Channels(fillColors[k1])[c] <= Channels(fillColors[k2])[c]
                            ELSE Channels(fillColors[k1])[c] >= Channels(fillColors[k2])[c]

\* Two temperatures strictly inside one segment, the second rendered after a
\* cooler first one (and, in another run, after a warmer one), with colours
\* that differ.
C10_Witness ==
    /\ Len(fillColors) = 2
    /\ temps[1] # null /\ temps[2] # null
    /\ \E i \in 1..(Len(gradient) - 1) :
          /\ gradient[i].temp < temps[2][1]
          /\ temps[2][1] < temps[1][1]
          /\ temps[1][1] < gradient[i + 1].temp
    /\ fillColors[1] # fillColors[2]

\* The first adjacent pair of stops whose temperatures enclose t.
FirstPair(t) ==
    CHOOSE i \in 1..(Len(gradient) - 1) :
        /\ gradient[i].temp <= t /\ t <= gradient[i + 1].temp
        /\ \A j \in 1..(i - 1) : ~(gradient[j].temp <= t /\ t <= gradient[j + 1].temp)

\* v is the rational num/den (den > 0) rounded to the nearest integer, a half
\* rounded up: v - 1/2 <= num/den < v + 1/2.
IsRoundHalfUp(v, num, den) ==
    /\ (2 * v - 1) * den <= 2 * num
    /\ 2 * num < (2 * v + 1) * den

\* C11: for a temperature strictly between the first and the last stop, every
\* channel of the colour is start.channel + (t - start.temp) / (end.temp -
\* start.temp) * (end.channel - start.channel) rounded half up, for the first
\* enclosing pair (start, end), and the alpha is 0.5.
C11_InterpolationFormula ==
    \A k \in Rendered :
        ( /\ temps[k] # null
          /\ gradient[1].temp < temps[k][1]
          /\ temps[k][1] < gradient[Len(gradient)].temp )
            => LET t     == temps[k][1]
                   start == gradient[FirstPair(t)]
                   end   == gradient[FirstPair(t) + 1]
               IN  /\ fillColors[k].alpha = "0.5"
                   /\ \A c \in 1..3 :
                         IsRoundHalfUp(Channels(fillColors[k])[c],
                                       start.color[c] * (end.temp - start.temp)
                                         + (t - start.temp) * (end.color[c] - start.color[c]),
                                       end.temp - start.temp)

\* 28.5 degrees has been rendered: an eighth of the way from the stop at 28 to
\* the stop at 32 the red channel is 255 - 14.5 = 240.5, shown as 241.
C11_Witness ==
    \E k \in Rendered :
        /\ temps[k] = Some(285)
        /\ gradient[FirstPair(285)].temp = 280
        /\ fillColors[k] = Rgba(241, 0, 0, "0.5")

\* The rendered temperatures that reach the interpolation loop.
InLoop(k) ==
    /\ temps[k] # null
    /\ gradient[1].temp < temps[k][1]
    /\ temps[k][1] < gradient[Len(gradient)].temp

\* C12, as stated: for every temperature that reaches the interpolation loop
\* exactly one adjacent pair of stops passes the loop's test.
C12_UniqueEnclosingPair ==
    \A k \in Rendered :
        InLoop(k) => Cardinality(enclosing(temps[k][1])) = 1

\* C12, amended: for every temperature that reaches the interpolation loop at
\* least one adjacent pair passes the loop's test; exactly one does when the
\* temperature is not a stop's, and exactly the two pairs that meet at the
\* stop do when it is an interior stop's; every pair that passes gives the
\* colour that is returned.
C12_EnclosingPairs ==
    \A k \in Rendered :
        InLoop(k) =>
            LET t == temps[k][1]
            IN  /\ enclosing(t) # {}
                /\ (\A i \in 1..Len(gradient) : gradient[i].temp # t)
                       => Cardinality(enclosing(t)) = 1
                /\ \A i \in 1..Len(gradient) :
                       gradient[i].temp = t => enclosing(t) = { i - 1, i }
                /\ \A j \in enclosing(t) : interpolate(t, j) = fillColors[k]

\* An interior stop's temperature, which two pairs enclose, has been rendered
\* after a temperature that only one pair encloses.
C12_Witness ==
    /\ Len(fillColors) = 2
    /\ InLoop(1) /\ InLoop(2)
    /\ Cardinality(enclosing(temps[1][1])) = 1
    /\ Cardinality(enclosing(temps[2][1])) = 2
    /\ fillColors[2] = interpolate(temps[2][1], MinOf(enclosing(temps[2][1])))

\* C13: the gradient table has at least two stops, its temperatures increase
\* strictly from stop to stop, every channel is an integer from 0 to 255, and
\* whatever has been rendered, the divisor end.temp - start.temp of every pair
\* the interpolation loop can take is positive.
C13_GradientWellFormed ==
    /\ Len(gradient) >= 2
    /\ \A i \in 1..(Len(gradient) - 1) : gradient[i].temp < gradient[i + 1].temp
    /\ \A i \in 1..Len(gradient) :
          /\ Len(gradient[i].color) = 3
          /\ \A c \in 1..3 : gradient[i].color[c] \in 0..255
    /\ \A k \in Rendered :
          InLoop(k) => \A i \in enclosing(temps[k][1]) :
                          gradient[i + 1].temp - gradient[i].temp > 0

\* A temperature inside the plateau, whose two stops have one colour and two
\* temperatures, has been rendered with that colour.
C13_Witness ==
    \E k \in Rendered :
        /\ InLoop(k)
        /\ LET i == FirstPair(temps[k][1])
           IN  /\ gradient[i].color = gradient[i + 1].color
               /\ gradient[i].temp < temps[k][1]
               /\ temps[k][1] < gradient[i + 1].temp
               /\ fillColors[k] = StopColor(i)

(***************************************************************************)
(* Claims about the zone grid (checked under SpecGrid)                     *)
(***************************************************************************)
\* The arguments and grid constants of the call that produced the grid.
Called ==
    IF origin # null
    THEN [ lat0 |-> origin[1].latStart, lon0 |-> origin[1].lonStart,
           rows |-> numberOfRows, cols |-> numberOfColumns,
           latStep |-> latStep, lonStep |-> lonStep ]
    ELSE [ lat0 |-> SJ_latStart, lon0 |-> SJ_lonStart,
           rows |-> SJ_numberOfRows, cols |-> SJ_numberOfColumns,
           latStep |-> SJ_latStep, lonStep |-> SJ_lonStep ]

\* C14: generateZones returns exactly 48 zones for 8 rows and 6 columns; the
\* zone generated at (row, col), the one whose first corner is (lat0 +
\* row * latStep, lon0 + col * lonStep), is at position row * 6 + col (counted
\* from 0) and has the identifier zone<row * 6 + col + 1>; the identifiers run
\* from zone1 to zone48 and are pairwise distinct; every zone has exactly 4
\* coordinates; the first coordinate of zone1 is (lat0, lon0).
C14_GridSizeAndIds ==
    grid # <<>> =>
        /\ Called.rows = 8 /\ Called.cols = 6
        /\ Len(grid) = 48
        /\ \A row \in 0..7 : \A col \in 0..5 :
              LET zone == grid[row * 6 + col + 1]
              IN  /\ zone.id = "zone" \o ToString(row * 6 + col + 1)
                  /\ zone.coordinates[1] =
                        [ latitude  |-> Called.lat0 + row * Called.latStep,
                          longitude |-> Called.lon0 + col * Called.lonStep ]
        /\ grid[1].id = "zone1" /\ grid[7].id = "zone7" /\ grid[48].id = "zone48"
        /\ \A i \in 1..Len(grid) : \A j \in 1..Len(grid) :
              i # j => grid[i].id # grid[j].id
        /\ \A i \in 1..Len(grid) : Len(grid[i].coordinates) = 4
        /\ grid[1].coordinates[1] = [latitude |-> Called.lat0, longitude |-> Called.lon0]

\* DynamicGeofencing's generateZones has returned the grid for an origin with
\* a negative longitude; its last zone is zone48, at row 7 and column 5.
C14_Witness ==
    /\ origin # null
    /\ origin[1].lonStart < 0
    /\ Len(grid) = 48
    /\ grid[48].id = "zone48"
    /\ grid[48].coordinates[1].latitude = origin[1].latStart + 7 * latStep
    /\ grid[48].coordinates[1].longitude = origin[1].lonStart + 5 * lonStep

\* C15: for every (row, col) the zone generated there has the four coordinates
\* (latMin, lonMin), (latMin, lonMax), (latMax, lonMax), (latMax, lonMin), in
\* this order, with latMin = originLat + row * latStep, latMax = originLat +
\* (row + 1) * latStep, lonMin = originLon + col * lonStep and lonMax =
\* originLon + (col + 1) * lonStep.
C15_RectangleGeometry ==
    grid # <<>> =>
        \A row \in 0..(Called.rows - 1) : \A col \in 0..(Called.cols - 1) :
            LET c      == grid[row * Called.cols + col + 1].coordinates
                latMin == Called.lat0 + row * Called.latStep
                latMax == Called.lat0 + (row + 1) * Called.latStep
                lonMin == Called.lon0 + col * Called.lonStep
                lonMax == Called.lon0 + (col + 1) * Called.lonStep
            IN  /\ Len(c) = 4
                /\ c[1].latitude = latMin /\ c[1].longitude = lonMin
                /\ c[2].latitude = latMin /\ c[2].longitude = lonMax
                /\ c[3].latitude = latMax /\ c[3].longitude = lonMax
                /\ c[4].latitude = latMax /\ c[4].longitude = lonMin

\* A grid whose origin has a negative latitude and a positive longitude has
\* been generated; its zone at row 3 and column 1 is a rectangle with four
\* different corners, and the next zone of the row starts where it ends.
C15_Witness ==
    /\ origin # null
    /\ origin[1].latStart < 0 /\ origin[1].lonStart > 0
    /\ Len(grid) = 48
    /\ Cardinality({ grid[20].coordinates[n] : n \in 1..4 }) = 4
    /\ grid[20].coordinates[3].latitude = origin[1].latStart + 4 * latStep
    /\ grid[20].coordinates[3].longitude = origin[1].lonStart + 2 * lonStep
    /\ grid[21].coordinates[1] = grid[20].coordinates[2]

MaxOf(S) == CHOOSE x \in S : \A y \in S : x >= y

FallbackGray == Rgba(128, 128, 128, "0.3")

\* C22: for every temperature that is a number, getTemperatureColor returns
\* the first stop's colour (at or below the first stop), the last stop's
\* colour (at or above the last stop), or the colour an iteration of the loop
\* computes for a pair that encloses the temperature; it never returns the
\* gray of the statement after the loop.
C22_FallbackUnreachable ==
    \A k \in Rendered :
        temps[k] # null =>
            LET t == temps[k][1]
            IN  /\ fillColors[k] # FallbackGray
                /\ fillColors[k].alpha = "0.5"
                /\ \/ t <= gradient[1].temp /\ fillColors[k] = StopColor(1)
                   \/ /\ t >= gradient[Len(gradient)].temp
                      /\ fillColors[k] = StopColor(Len(gradient))
                   \/ \E i \in 1..(Len(gradient) - 1) :
                         /\ gradient[i].temp <= t /\ t <= gradient[i + 1].temp
                         /\ fillColors[k] = interpolate(t, i)

\* A temperature below the first stop has been rendered after the temperature
\* of an interior stop; neither is gray.
C22_Witness ==
    /\ Len(fillColors) = 2
    /\ temps[1] # null /\ temps[2] # null
    /\ \E i \in 2..(Len(gradient) - 1) : temps[1][1] = gradient[i].temp
    /\ temps[2][1] < gradient[1].temp
    /\ fillColors[1] # FallbackGray
    /\ fillColors[2] # FallbackGray

(***************************************************************************)
(* Claims about the city search (checked under SpecHome)                   *)
(***************************************************************************)
\* C23: the cities list never holds two entries with the same id.
C23_NoDuplicateCities ==
    \A i, j \in 1..Len(cities) : i # j => cities[i].id # cities[j].id

\* A timeout that has closed over the input name fires in this step.
Fires(name) ==
    \E i \in 1..Len(timeouts) : timeouts[i] = name /\ timeouts' = Without(timeouts, i)

\* The result names a city, a town or a village, and a state and a country.
Complete(result) ==
    /\ result.address.city # "" \/ result.address.town # ""
            \/ result.address.village # ""
    /\ result.address.state # ""
    /\ result.address.country # ""

Completes(i) == weatherFetches' = Without(weatherFetches, i)

\* A fetch is issued exactly in the steps that change the coordinates to a
\* pair of defined ones, one fetch in each.
OneFetchPerChange ==
    /\ fetchCount' # fetchCount =>
            /\ <<latitude', longitude'>> # <<latitude, longitude>>
            /\ latitude' # null /\ longitude' # null
            /\ fetchCount' = fetchCount + 1
            /\ Len(weatherFetches') = Len(weatherFetches) + 1
    /\ ( /\ <<latitude', longitude'>> # <<latitude, longitude>>
         /\ latitude' # null /\ longitude' # null )
            => fetchCount' = fetchCount + 1

\* After the completion of the fetch at position i loading is false, and
\* either data is its response or error is a failure message and data is
\* what it was.
Settled(i) ==
    /\ weatherLoading' = FALSE
    /\ \/ weatherData' = Some(weatherFetches[i]) /\ weatherError' = weatherError
       \/ /\ weatherError' # null
          /\ weatherError'[1] \in FetchFailures
          /\ weatherData' = weatherData

\* C25, as stated: a fetch is issued only for two defined coordinates, one per
\* change of the pair; after any fetch completes loading is false, and on
\* failure error holds the failure message while data keeps its value.
C25_FetchGating ==
    [][ /\ OneFetchPerChange
        /\ \A i \in 1..Len(weatherFetches) : Completes(i) => Settled(i) ]_vars

\* C25, amended: the same, for the fetches that complete while the component
\* is mounted; a completion after the unmount changes no state of the hook.
C25_FetchGatingWhileMounted ==
    [][ /\ OneFetchPerChange
        /\ \A i \in 1..Len(weatherFetches) :
                Completes(i) =>
                    IF weatherMounted
                    THEN Settled(i)
                    ELSE UNCHANGED <<weatherData, weatherLoading, weatherError>>
      ]_vars

\* On the mounted component a fetch has succeeded, a later one has failed,
\* and a coordinate has been undefined after the first fetch.
C25_Witness ==
    /\ weatherMounted
    /\ weatherData # null
    /\ weatherError # null
    /\ ~weatherLoading
    /\ fetchCount >= 2
    /\ latitude = null

\* C29: once all fetches have completed without a failure, data is the
\* response for the latest coordinates; the response of an earlier call
\* never replaces the response of a later one.
C29_Freshness ==
    /\ []( ( /\ weatherMounted
             /\ weatherFetches = <<>>
             /\ weatherError = null
             /\ fetchCount > 0
             /\ fetchWeather(latitude, longitude) )
            => weatherData = Some([latitude |-> latitude, longitude |-> longitude,
                                   call |-> fetchCount]) )
    /\ [][ (weatherData # null /\ weatherData' # weatherData)
                => weatherData'[1].call > weatherData[1].call ]_vars

(***************************************************************************)
(* Claims about the position subscription (checked under SpecMap)          *)
(***************************************************************************)
\* The runs of the location effect whose subscription is active.
ActiveSubscriptions == { e \in 1..Len(effects) : effects[e].stage = "subscribed" }

\* C30: at most one position subscription is active at any time and none
\* after the unmount; while tracking is false, a location update does not
\* change the region.
C30_SubscriptionLifecycle ==
    /\ []( /\ Cardinality(ActiveSubscriptions) <= 1
           /\ ~mapMounted => ActiveSubscriptions = {} )
    /\ [][ (~tracking /\ mapLocation' # mapLocation) => region' = region ]_vars

====
